---------------------------- MODULE Spec2Model ----------------------------
(***************************************************************************)
(* State-machine model of the RAG pipelines of AICryptoPulse:               *)
(*   service/rag_pipeline.py  RagPipeline (initialize_faiss_index, run)    *)
(*   service/rag_pipeline/pipeline.py, get_data_psql.py  the index build   *)
(*   service/api/views.py     predict                                      *)
(*   service/models.py        UserPrompt                                   *)
(*   service/mongo/app_database.py  get_user_info                          *)
(* One RagPipeline instance (the session pipeline) is driven directly      *)
(* through its two methods; /predict builds its own instance per request.  *)
(* The S3 bucket and the process that rebuilds a window are environment.   *)
(***************************************************************************)
EXTENDS Integers, Sequences, FiniteSets, TLC

\* ------------------------------------------------------------ bounds
\* Rebuilds the environment performs; they are numbered 1..MaxBuilds in upload order.
MaxBuilds == 3
\* Successful run calls after which the model issues no further run.
MaxRuns == 2
\* The nof_messages_to_store the session pipeline is constructed with.
nof_messages_to_store == 1
\* Rows the source tables hold together at most.
MaxRows == 2
\* Characters one token of a source text stands for.
TokenWidth == 256
\* Records add_user inserts in one behaviour; they number the creation dates.
MaxInserts == 3
\* add_user calls that are between their existence check and their insert.
MaxPending == 2

\* ------------------------------------------------------------ program constants
\* RagPipeline.__init__ defaults (rag_pipeline.py:45).
default_nof_retrieved_docs == 3
default_nof_messages_to_store == 15
\* RecursiveCharacterTextSplitter(chunk_size=512, chunk_overlap=64), in characters.
chunk_size == 512
chunk_overlap == 64

\* ------------------------------------------------------------ input domains
\* The two object keys predict derives (1-day window, 30-day window).
Windows == {"day", "month"}
Builds == 1..MaxBuilds
Usernames == {"alice", "bob"}
\* Texts are sequences of tokens, so that joining two texts is concatenation.
Questions == {<<"q1">>, <<"q2">>}
Answers == {<<"a1">>}
SystemPrompt == <<"sp">>
\* What the language-model backend may do with one call.
LlmOutcomes == {[ok |-> FALSE, text |-> <<>>]} \cup {[ok |-> TRUE, text |-> a] : a \in Answers}

\* Python None, and the absence of an exception.
None == [tag |-> "None"]
NoError == [type |-> "none", msg |-> ""]

\* ------------------------------------------------------------ exceptions
\* rag_pipeline.py:136  ValueError raised by run on a pipeline without index.
NotInitializedError ==
    [type |-> "ValueError",
     msg |-> "FAISS index is not initialized. Run initialize_faiss_index first."]
\* rag_pipeline.py:145  ValueError raised by run on an empty retrieval.
NoMatchingError ==
    [type |-> "ValueError",
     msg |-> "No matching documents found in the FAISS index."]
\* rag_pipeline.py:150  user_prompt["prompt"] with user_prompt a str.
StrIndexError ==
    [type |-> "TypeError", msg |-> "string indices must be integers"]
\* Raised inside similarity_search_with_score (encoder failure, or a vector
\* position that index_to_docstore_id does not map).
RetrievalError == [type |-> "RetrievalError", msg |-> "similarity search failed"]
\* Raised by chain.run when the language-model call fails or times out.
SynthesisError == [type |-> "SynthesisError", msg |-> "language model call failed"]
\* botocore ClientError 404 raised by download_file for a missing object.
NotFoundError == [type |-> "ClientError", msg |-> "An error occurred (404): Not Found"]
\* botocore EndpointConnectionError raised when S3 cannot be reached.
TransientError ==
    [type |-> "EndpointConnectionError", msg |-> "Could not connect to the endpoint URL"]
\* faiss.read_index / pickle.load on bytes that do not deserialize.
DeserializeError == [type |-> "DeserializeError", msg |-> "cannot deserialize object"]
\* app_database.py:130  get_user_info for an unknown username.
UserNotFoundError(username) ==
    [type |-> "ApplicationDatabaseException",
     msg |-> CASE username = "alice" -> "User alice not found."
               [] username = "bob" -> "User bob not found."
               [] OTHER -> "User  not found."]
\* rag_pipeline.py:119  metadata["docstore"] on an unpickled tuple.
TupleIndexError ==
    [type |-> "TypeError", msg |-> "tuple indices must be integers or slices, not str"]
\* views.py:154  attribute access on a field the request model does not declare.
AttributeError ==
    [type |-> "AttributeError",
     msg |-> "'UserPrompt' object has no attribute 'daily_report'"]

VARIABLES
    store,        \* S3 bucket: window -> build number held by its _index and its _meta object (0: absent)
    up,           \* the rebuild in progress: the object it writes next
    users,        \* the records of the users collection
    messages,     \* self.memory.chat_memory.messages of the session pipeline
    faiss_index,  \* self.faiss_index of the session pipeline
    pc,           \* position inside initialize_faiss_index: "idle" or "loading"
    raw,          \* locals of a running initialize_faiss_index: object_key, raw_faiss_index
    last,         \* outcome of the call that completed last
    tables,       \* the source database: table name -> its rows
    index_path,   \* the directory at index_path of the build pipeline, or None
    build_index,  \* self.faiss_index of the build pipeline constructed last
    built,        \* outcome of the construction of the build pipeline that completed last
    adding,       \* add_user calls between their existence check and their insert
    getting,      \* the username of a get_user call between has_user and find_one, or ""
    clock,        \* time.time(): the creation date the next insert gets
    collection,   \* the users collection: "missing", "created", "unindexed" or "indexed"
    reply,        \* outcome of the call of a user endpoint that completed last
    job,          \* the daily job: where it is, the users it listed, its position among them
    called,       \* the /predict calls of the current run of the daily job, in order
    sent          \* the messages the current run of the daily job sent, in order

\* The variables of the serving side and those of the index build.
serving == <<store, up, users, messages, faiss_index, pc, raw, last>>
building == <<tables, index_path, build_index, built>>
registry == <<adding, getting, clock, collection, reply>>
daily == <<job, called, sent>>
vars == <<store, up, users, messages, faiss_index, pc, raw, last,
          tables, index_path, build_index, built, adding, getting, clock, collection, reply,
          job, called, sent>>

\* ------------------------------------------------------------ stored objects
\* Number of chunks of build b: build 1 is built from zero documents.
Size(b) == b - 1
\* Internal id of the i-th chunk of build b of window w.
DocId(w, b, i) == <<w, b, i>>
\* The `{w}_index` object of build b: the serialized raw faiss index.
IndexObject(w, b) == [win |-> w, build |-> b, ntotal |-> Size(b)]
\* The `{w}_meta` object of build b: the pickled docstore and id map, a dict
\* with the keys "docstore" and "index_to_docstore_id".
MetaObject(w, b) ==
    [form |-> "dict", win |-> w, build |-> b,
     docstore |-> {DocId(w, b, i) : i \in 1..Size(b)},
     index_to_docstore_id |-> [i \in 1..Size(b) |-> DocId(w, b, i)]]

\* s3_client.download_file followed by the deserialization of what it fetched.
\* part is "index" or "meta"; reachable and intact are the environment's part:
\* whether S3 answers, and whether the bytes deserialize.
download(bucket, w, part, reachable, intact) ==
    IF ~reachable THEN [err |-> TransientError, obj |-> None]
    ELSE IF bucket[w][part] = 0 THEN [err |-> NotFoundError, obj |-> None]
    ELSE IF ~intact THEN [err |-> DeserializeError, obj |-> None]
    ELSE [err |-> NoError,
          obj |-> IF part = "index" THEN IndexObject(w, bucket[w][part])
                  ELSE MetaObject(w, bucket[w][part])]

\* FAISS(embedding_function, index, docstore, index_to_docstore_id)
FAISS(raw_faiss_index, metadata) ==
    [tag |-> "FAISS",
     index |-> raw_faiss_index,
     meta_of |-> [win |-> metadata.win, build |-> metadata.build],
     docstore |-> metadata.docstore,
     index_to_docstore_id |-> metadata.index_to_docstore_id]

\* ------------------------------------------------------------ conversation memory
\* One turn of the transcript.
Turn(role, text) == [role |-> role, text |-> text]

\* ConversationBufferWindowMemory.save_context: one exchange, human then AI.
save_context(msgs, question, answer) ==
    msgs \o <<Turn("user", question), Turn("assistant", answer)>>

\* ConversationBufferWindowMemory.load_memory_variables({})["chat_history"]:
\* the messages of the last k exchanges, messages[-k * 2:], and [] for k = 0.
load_memory_variables(msgs, k) ==
    IF k > 0
    THEN IF Len(msgs) <= 2 * k THEN msgs
         ELSE SubSeq(msgs, Len(msgs) - 2 * k + 1, Len(msgs))
    ELSE <<>>

\* ------------------------------------------------------------ retrieval
\* EmbeddingModelWrapper.__call__: a deterministic one-dimensional embedding.
TokenValue(t) == CASE t = "q1" -> 0 [] t = "q2" -> 3 [] OTHER -> 1
RECURSIVE TokenSum(_)
TokenSum(text) == IF text = <<>> THEN 0 ELSE TokenValue(Head(text)) + TokenSum(Tail(text))
Embed(text) == TokenSum(text) % 4
\* The vector stored at position i of a raw index, and its squared L2 distance.
Vec(i) == i
Distance(e, i) == (e - Vec(i)) * (e - Vec(i))

\* raw faiss search: the k positions nearest to e among S in ascending distance,
\* fewer when S holds fewer (langchain drops the -1 padding faiss returns).
RECURSIVE Nearest(_, _, _)
Nearest(S, e, k) ==
    IF k = 0 \/ S = {} THEN <<>>
    ELSE LET best == CHOOSE i \in S : \A j \in S :
                        \/ Distance(e, i) < Distance(e, j)
                        \/ Distance(e, i) = Distance(e, j) /\ i <= j
         IN <<best>> \o Nearest(S \ {best}, e, k - 1)

\* FAISS.similarity_search_with_score(query, k): embed the query, search the raw
\* index, map each position through index_to_docstore_id to its document.
\* enc_ok is the environment's part: whether the encoder returned a vector.
similarity_search_with_score(fi, query, k, enc_ok) ==
    IF ~enc_ok THEN [err |-> RetrievalError, docs |-> <<>>]
    ELSE LET hits == Nearest(1..fi.index.ntotal, Embed(query), k)
         IN IF \E n \in 1..Len(hits) :
                  \/ hits[n] \notin DOMAIN fi.index_to_docstore_id
                  \/ fi.index_to_docstore_id[hits[n]] \notin fi.docstore
            THEN [err |-> RetrievalError, docs |-> <<>>]
            ELSE [err |-> NoError,
                  docs |-> [n \in 1..Len(hits) |->
                              [doc |-> fi.index_to_docstore_id[hits[n]],
                               score |-> Distance(Embed(query), hits[n])]]]

\* ------------------------------------------------------------ synthesis
\* self.chain.run(inputs) of the chain built with memory=self.memory: the
\* language-model call, and on its success the chain's own write of the
\* exchange to its memory (Chain.prep_outputs).  llm is the environment's
\* part: a failed call, or the text the model generated.
\* chain_run_early_write is the variant that records the question before the call.
chain_run_early_write(msgs, question, llm) ==
    IF ~llm.ok
    THEN [err |-> SynthesisError, response |-> <<>>,
          messages |-> msgs \o <<Turn("user", question)>>]
    ELSE [err |-> NoError, response |-> llm.text,
          messages |-> save_context(msgs, question, llm.text)]

chain_run(msgs, question, llm) ==
    IF ~llm.ok
    THEN [err |-> SynthesisError, response |-> <<>>, messages |-> msgs]
    ELSE [err |-> NoError, response |-> llm.text,
          messages |-> save_context(msgs, question, llm.text)]

\* What a call returns to its caller and leaves behind.
RunResult(err, response, msgs, searched, llm_called, docs, history) ==
    [err |-> err, response |-> response, messages |-> msgs,
     searched |-> searched, llm_called |-> llm_called,
     docs |-> docs, chat_history |-> history]

\* RagPipeline.run, lines 147-159: chain.run, then the explicit save_context.
\* user_prompt is [kind, prompt, system_prompt]: kind "dict" is the mapping the
\* method indexes, kind "str" the plain string predict passes, on which
\* user_prompt["prompt"] raises before the chain is called.
synthesize(msgs, k_mem, user_prompt, input_documents, llm) ==
    IF user_prompt.kind = "str"
    THEN RunResult(StrIndexError, <<>>, msgs, TRUE, FALSE, input_documents, <<>>)
    ELSE LET chat_history == load_memory_variables(msgs, k_mem)
             out == chain_run(msgs, user_prompt.prompt, llm)
         IN IF out.err # NoError
            THEN RunResult(out.err, <<>>, out.messages, TRUE, TRUE,
                           input_documents, chat_history)
            ELSE RunResult(NoError, out.response,
                           save_context(out.messages, user_prompt.prompt, out.response),
                           TRUE, TRUE, input_documents, chat_history)

\* RagPipeline.run, lines 140-159, without the check of lines 144-145.
retrieve_and_answer_unchecked(fi, msgs, k_docs, k_mem, user_prompt, enc_ok, llm) ==
    LET results == similarity_search_with_score(fi, user_prompt.prompt, k_docs, enc_ok)
        input_documents == [n \in 1..Len(results.docs) |-> results.docs[n].doc]
    IN IF results.err # NoError
       THEN RunResult(results.err, <<>>, msgs, TRUE, FALSE, <<>>, <<>>)
       ELSE synthesize(msgs, k_mem, user_prompt, input_documents, llm)

\* RagPipeline.run, lines 140-159: retrieve, refuse an empty retrieval, answer.
retrieve_and_answer(fi, msgs, k_docs, k_mem, user_prompt, enc_ok, llm) ==
    LET results == similarity_search_with_score(fi, user_prompt.prompt, k_docs, enc_ok)
        input_documents == [n \in 1..Len(results.docs) |-> results.docs[n].doc]
    IN IF results.err # NoError
       THEN RunResult(results.err, <<>>, msgs, TRUE, FALSE, <<>>, <<>>)
       ELSE IF input_documents = <<>>
       THEN RunResult(NoMatchingError, <<>>, msgs, TRUE, FALSE, <<>>, <<>>)
       ELSE synthesize(msgs, k_mem, user_prompt, input_documents, llm)

\* RagPipeline.run without the check of lines 135-138: the search is attempted
\* on None and raises.
run_unguarded(fi, msgs, k_docs, k_mem, user_prompt, enc_ok, llm) ==
    IF fi.tag = "None"
    THEN RunResult(RetrievalError, <<>>, msgs, TRUE, FALSE, <<>>, <<>>)
    ELSE retrieve_and_answer(fi, msgs, k_docs, k_mem, user_prompt, enc_ok, llm)

\* RagPipeline.run(user_prompt)
run(fi, msgs, k_docs, k_mem, user_prompt, enc_ok, llm) ==
    IF fi.tag = "None"
    THEN RunResult(NotInitializedError, <<>>, msgs, FALSE, FALSE, <<>>, <<>>)
    ELSE retrieve_and_answer(fi, msgs, k_docs, k_mem, user_prompt, enc_ok, llm)

\* ------------------------------------------------------------ index load
\* initialize_faiss_index, lines 103-107: download `{object_key}_index` and
\* read it as a raw index.
initialize_download_index(bucket, object_key, reachable, intact) ==
    download(bucket, object_key, "index", reachable, intact)

\* initialize_faiss_index, lines 109-121: download `{object_key}_meta`, unpickle
\* it and assign self.faiss_index; held is self.faiss_index before the call.
\* Variant that drops the held index when the load fails.
initialize_download_meta_reset(bucket, held, locals, reachable, intact) ==
    LET metadata == download(bucket, locals.object_key, "meta", reachable, intact)
    IN IF metadata.err # NoError
       THEN [err |-> metadata.err, faiss_index |-> None]
       ELSE [err |-> NoError,
             faiss_index |-> FAISS(locals.raw_faiss_index, metadata.obj)]

\* Variant that adds the loaded documents to the ones already held.
initialize_download_meta_merge(bucket, held, locals, reachable, intact) ==
    LET metadata == download(bucket, locals.object_key, "meta", reachable, intact)
        loaded == FAISS(locals.raw_faiss_index, metadata.obj)
    IN IF metadata.err # NoError
       THEN [err |-> metadata.err, faiss_index |-> held]
       ELSE IF metadata.obj.form # "dict"
       THEN [err |-> TupleIndexError, faiss_index |-> held]
       ELSE [err |-> NoError,
             faiss_index |-> IF held.tag = "None" THEN loaded
                             ELSE [loaded EXCEPT !.docstore = @ \cup held.docstore]]

\* initialize_faiss_index, lines 116-121: the FAISS store is assembled from the
\* raw index and from metadata["docstore"], metadata["index_to_docstore_id"].
assemble(held, raw_faiss_index, metadata) ==
    IF metadata.form # "dict"
    THEN [err |-> TupleIndexError, faiss_index |-> held]
    ELSE [err |-> NoError, faiss_index |-> FAISS(raw_faiss_index, metadata)]

initialize_download_meta(bucket, held, locals, reachable, intact) ==
    LET metadata == download(bucket, locals.object_key, "meta", reachable, intact)
    IN IF metadata.err # NoError
       THEN [err |-> metadata.err, faiss_index |-> held]
       ELSE assemble(held, locals.raw_faiss_index, metadata.obj)

\* ------------------------------------------------------------ /predict
\* service/models.py UserPrompt: the fields the request model declares; pydantic
\* drops every other key of the request body.
UserPromptFields == {"username", "prompt"}
UserPrompt(body) == [f \in UserPromptFields |-> body[f]]

\* A document of the users collection as add_user inserts it.
UserRecord(username, system_prompt, creation_date) ==
    [tag |-> "user", username |-> username, system_prompt |-> system_prompt,
     chat_id |-> <<"chat", username>>, creation_date |-> creation_date]

\* Variant that inserts a record for a username it does not find.
get_user_info_upsert(coll, username) ==
    LET found == {r \in coll : r.username = username}
        doc == IF found = {} THEN UserRecord(username, <<>>, 0) ELSE CHOOSE r \in found : TRUE
    IN [err |-> NoError, info |-> doc, coll |-> coll \cup {doc}]

\* AppDatabase.get_user_info: has_user and find_one, both of them reads; coll is
\* the collection as the call leaves it.
get_user_info(coll, username) ==
    LET found == {r \in coll : r.username = username}
    IN IF found = {}
       THEN [err |-> UserNotFoundError(username), info |-> None, coll |-> coll]
       ELSE [err |-> NoError, info |-> CHOOSE r \in found : TRUE, coll |-> coll]

\* create_response(status_code, data): data is {"response": text} on success and
\* {"message": str(e)} on failure.
create_response(status_code, key, text) ==
    [status_code |-> status_code, key |-> key, text |-> text]

\* The except clause of predict: every exception becomes status 400 and its text.
caught(e) == create_response(400, "message", e.msg)

\* Variant that hands every request the one pipeline of the process.
get_rag_pipeline_shared == [faiss_index |-> faiss_index, messages |-> messages]

\* get_rag_pipeline: a RagPipeline constructed for the request, with the memory
\* and the index its constructor sets.
get_rag_pipeline == [faiss_index |-> None, messages |-> <<>>]

\* predict(user, s3_client, db, rag): the response, and what the request did on
\* the way: coll is the users collection as it leaves it, rag the pipeline as it
\* leaves it, chat_history what the pipeline's memory supplies to the chain, and
\* downloads the number of download_file calls it made.
predict_trace(bucket, coll, body, reachable, intact, enc_ok, llm) ==
    LET rag == get_rag_pipeline
        user == UserPrompt(body)
        found == get_user_info(coll, user.username)
        begun == [response |-> caught(found.err), coll |-> found.coll, rag |-> rag,
                  chat_history |-> load_memory_variables(rag.messages,
                                                         default_nof_messages_to_store),
                  downloads |-> 0]
    IN IF found.err # NoError THEN begun
       ELSE IF "daily_report" \notin DOMAIN user
       THEN [begun EXCEPT !.response = caught(AttributeError)]
       ELSE LET prompt == found.info.system_prompt \o <<"\n">> \o user.prompt
                object_key == IF user.daily_report THEN "day" ELSE "month"
                index == initialize_download_index(bucket, object_key, reachable, intact)
            IN IF index.err # NoError
               THEN [begun EXCEPT !.response = caught(index.err), !.downloads = 1]
               ELSE LET loaded == initialize_download_meta(bucket, rag.faiss_index,
                                   [object_key |-> object_key, raw_faiss_index |-> index.obj],
                                   reachable, intact)
                    IN IF loaded.err # NoError
                       THEN [begun EXCEPT !.response = caught(loaded.err), !.downloads = 2]
                       ELSE LET out == run(loaded.faiss_index, rag.messages,
                                           default_nof_retrieved_docs,
                                           default_nof_messages_to_store,
                                           [kind |-> "str", prompt |-> prompt,
                                            system_prompt |-> <<>>],
                                           enc_ok, llm)
                            IN [begun EXCEPT
                                  !.response = IF out.err # NoError THEN caught(out.err)
                                               ELSE create_response(200, "response",
                                                                    out.response),
                                  !.rag = [faiss_index |-> loaded.faiss_index,
                                           messages |-> out.messages],
                                  !.downloads = 2]

\* The response of POST /predict.
predict(bucket, coll, body, reachable, intact, enc_ok, llm) ==
    predict_trace(bucket, coll, body, reachable, intact, enc_ok, llm).response

\* ------------------------------------------------------------ users collection
\* service/mongo/app_database.py and the user endpoints of service/api/views.py.

\* System prompts a user registers with or changes to.
SystemPrompts == {SystemPrompt, <<"sp2">>}

\* add_user, lines 91-93: the username has a record.
AlreadyExistsError(username) ==
    [type |-> "ApplicationDatabaseException",
     msg |-> CASE username = "alice" -> "User with alice already exists in the system."
               [] username = "bob" -> "User with bob already exists in the system."
               [] OTHER -> "User with  already exists in the system."]
\* pymongo DuplicateKeyError of insert_one under the unique index INDEX_USERNAME,
\* re-raised by add_user as ApplicationDatabaseException(str(e)).
DuplicateKeyError ==
    [type |-> "ApplicationDatabaseException",
     msg |-> "E11000 duplicate key error collection: application.users index: INDEX_USERNAME"]

\* collection_users.find_one({username}): a record of that username, or None.
find_one(coll, username) ==
    LET found == {r \in coll : r.username = username}
    IN IF found = {} THEN None ELSE CHOOSE r \in found : TRUE

\* AppDatabase.has_user
has_user(coll, username) == find_one(coll, username).tag # "None"

\* collection_users.insert_one(doc): where the collection has the unique index
\* of INDEXES_USERS, a second record of a username is refused.
insert_one(coll, doc, unique) ==
    IF unique /\ \E r \in coll : r.username = doc.username
    THEN [err |-> DuplicateKeyError, coll |-> coll]
    ELSE [err |-> NoError, coll |-> coll \cup {doc}]

\* collection_users.delete_one({username}): at most one record goes.
delete_one(coll, username) ==
    LET doc == find_one(coll, username)
    IN IF doc.tag = "None" THEN coll ELSE coll \ {doc}

\* collection_users.update_one({username}, {$set: {system_prompt}}): at most one
\* record changes, and only its system_prompt.
update_one(coll, username, new_prompt) ==
    LET doc == find_one(coll, username)
    IN IF doc.tag = "None" THEN coll
       ELSE (coll \ {doc}) \cup {[doc EXCEPT !.system_prompt = new_prompt]}

\* AppDatabase.add_user, lines 88-93: the existence check.
add_user_check(coll, username) ==
    IF find_one(coll, username).tag # "None" THEN AlreadyExistsError(username)
    ELSE NoError

\* AppDatabase.add_user, lines 95-102: the insert, now being time.time().
add_user_insert(coll, username, system_prompt, now, unique) ==
    insert_one(coll, UserRecord(username, system_prompt, now), unique)

\* create_indexes(INDEXES_USERS): the unique index cannot be built over records
\* that share a username, and the call can fail for the connection.
create_indexes(coll, ok) ==
    /\ ok
    /\ \A r1, r2 \in coll : r1.username = r2.username => r1 = r2

\* get_user, lines 96-109, once get_user_info returned user (a record or None).
\* The status and message are the response's; the fields of the record it
\* carries are get_user_data.
get_user_response(user) ==
    IF user.tag = "None" THEN create_response(404, "message", "User not found.")
    ELSE create_response(200, "username, system_prompt, chat_id", "")

\* The data of a response that carries no user record.
NoData == [username |-> "", system_prompt |-> <<>>, chat_id |-> <<>>]
\* get_user, lines 103-107: the fields of the record the 200 response carries.
get_user_data(user) ==
    IF user.tag = "None" THEN NoData
    ELSE [username |-> user.username, system_prompt |-> user.system_prompt,
          chat_id |-> user.chat_id]

\* The record of a completed call of a user endpoint.
Reply(op, username, err, response, data) ==
    [op |-> op, username |-> username, err |-> err,
     status_code |-> response.status_code, key |-> response.key, text |-> response.text,
     data |-> data]
NoReply ==
    [op |-> "none", username |-> "", err |-> NoError,
     status_code |-> 0, key |-> "", text |-> "", data |-> NoData]

\* ------------------------------------------------------------ daily job
\* bot/api.py and daily_predict_job of bot/handlers.py.

\* AppDatabase.get_all_users: find({}), the records in the order of their insertion.
RECURSIVE find_all(_)
find_all(coll) ==
    IF coll = {} THEN <<>>
    ELSE LET first == CHOOSE r \in coll :
                          \A other \in coll : r.creation_date <= other.creation_date
         IN <<first>> \o find_all(coll \ {first})

\* What the request to /get_all_users can come to.
Listings == {"200", "400", "raised"}
\* requests.get raising in get_all_users, which has no except clause.
ListingError == [type |-> "ConnectionError", msg |-> "Connection refused"]
\* telegram's error out of bot.send_message, e.g. for a user who blocked the bot.
SendError == [type |-> "Forbidden", msg |-> "Forbidden: bot was blocked by the user"]

\* bot.api.get_all_users: the users of a 200 answer, the empty list for any
\* other status; an exception of requests.get leaves the function.
get_all_users(coll, listing) ==
    IF listing = "raised" THEN [err |-> ListingError, all_users |-> <<>>]
    ELSE IF listing # "200" THEN [err |-> NoError, all_users |-> <<>>]
    ELSE [err |-> NoError, all_users |-> find_all(coll)]

\* bot.texts.REGULAR_UPDATE_PROMPT
REGULAR_UPDATE_PROMPT == <<"REGULAR_UPDATE_PROMPT">>

\* daily_predict_job, lines 161-165: the body of the /predict request of a user.
payload(user_info) ==
    [username |-> user_info["username"],
     prompt |-> user_info["system_prompt"] \o <<"\n">> \o REGULAR_UPDATE_PROMPT,
     daily_report |-> TRUE]

\* daily_predict_job, lines 167-173: the text for the user. answered says that
\* requests.post returned a response; the status of the response is not looked at.
response_text(answered, response) ==
    IF ~answered THEN [kind |-> "Error calling /predict: ", answer |-> <<>>]
    ELSE IF response.key = "response"
    THEN [kind |-> "response", answer |-> response.text]
    ELSE [kind |-> "No response", answer |-> <<>>]

\* The daily job between its runs, before the first one.
NoJob == [pc |-> "idle", registered |-> {}, all_users |-> <<>>, i |-> 1, err |-> NoError]

\* ------------------------------------------------------------ index build
\* service/rag_pipeline: the pipeline that builds the index from the source
\* tables and keeps it in the directory index_path.

\* RAG_CONFIG["DATA_TABLES"]: the configured source tables in configuration order.
DATA_TABLES == <<"table_a", "table_b">>
TableNames == {DATA_TABLES[i] : i \in DOMAIN DATA_TABLES}
\* Texts of source rows: an empty one, a short one, one longer than a chunk.
Texts == {<<>>, <<"x">>, <<"x", "y", "z">>}
\* The n-th row of a table: its id column and its text column.
Row(table_name, n, text) == [id |-> <<table_name, n>>, text |-> text]
\* pandas.read_sql: the rows of a table.
DataFrame(rows) == [tag |-> "DataFrame", rows |-> rows]

\* pipeline.py:85  raw_data.items() when get_data_from_psql returned None.
NoneItemsError ==
    [type |-> "AttributeError", msg |-> "'NoneType' object has no attribute 'items'"]
\* pipeline.py:89  df[ids_column] when execute_query returned None for the table.
NoneSubscriptError ==
    [type |-> "TypeError", msg |-> "'NoneType' object is not subscriptable"]
\* pipeline.py:118  FAISS.from_documents on no documents: embeddings[0].
EmptyEmbeddingsError == [type |-> "IndexError", msg |-> "list index out of range"]

\* execute_query: the table as a DataFrame; a failed read is logged by the except
\* clause and the function falls off its end, which returns None.
execute_query(db, table_name, readable) ==
    IF readable THEN [raised |-> FALSE, value |-> DataFrame(db[table_name])]
    ELSE [raised |-> FALSE, value |-> None]

\* load_data: one execute_query per configured table.
load_data(db, unreadable) ==
    [t \in TableNames |-> execute_query(db, t, t \notin unreadable).value]

\* get_data_from_psql: db_url says whether DB_URL is defined (create_db_engine
\* raises ValueError when it is not); the except clause logs and returns None.
get_data_from_psql(db, db_url, unreadable) ==
    IF ~db_url THEN [raised |-> FALSE, value |-> None]
    ELSE [raised |-> FALSE,
          value |-> [tag |-> "dict", tables |-> load_data(db, unreadable)]]

\* list.extend over a sequence of lists.
RECURSIVE Concat(_)
Concat(lists) == IF lists = <<>> THEN <<>> ELSE Head(lists) \o Concat(Tail(lists))

\* RagPipeline._get_filtered_data: ids and texts, table by table, row by row.
get_filtered_data(raw_data) ==
    IF raw_data.tag = "None"
    THEN [err |-> NoneItemsError, docs_ids |-> <<>>, docs |-> <<>>]
    ELSE IF \E t \in TableNames : raw_data.tables[t].tag = "None"
    THEN [err |-> NoneSubscriptError, docs_ids |-> <<>>, docs |-> <<>>]
    ELSE LET rows(i) == raw_data.tables[DATA_TABLES[i]].rows
         IN [err |-> NoError,
             docs_ids |-> Concat([i \in DOMAIN DATA_TABLES |->
                                    [n \in DOMAIN rows(i) |-> rows(i)[n].id]]),
             docs |-> Concat([i \in DOMAIN DATA_TABLES |->
                                [n \in DOMAIN rows(i) |-> rows(i)[n].text]])]

\* Tokens per chunk and tokens shared by neighbouring chunks.
ChunkTokens == IF chunk_size \div TokenWidth > 0 THEN chunk_size \div TokenWidth ELSE 1
OverlapTokens == chunk_overlap \div TokenWidth

\* RecursiveCharacterTextSplitter.split_text: consecutive chunks of at most
\* chunk_size, each beginning chunk_overlap before the end of the one before.
RECURSIVE split_text(_)
split_text(text) ==
    IF Len(text) <= ChunkTokens THEN <<text>>
    ELSE <<SubSeq(text, 1, ChunkTokens)>>
         \o split_text(SubSeq(text, ChunkTokens - OverlapTokens + 1, Len(text)))

\* Document(page_content=text): no metadata is given.
Document(page_content) == [page_content |-> page_content, metadata |-> {}]

\* RagPipeline._split_documents: empty texts are left out, the others are split.
split_documents(documents) ==
    LET docs_as_objs == SelectSeq(documents, LAMBDA text : text # <<>>)
    IN Concat([d \in DOMAIN docs_as_objs |->
                 LET chunks == split_text(docs_as_objs[d])
                 IN [c \in DOMAIN chunks |-> Document(chunks[c])]])

\* The outcomes of uuid4 the model distinguishes.
Salts == {1, 2}
\* uuid4: the docstore id of the n-th document; salt stands for the randomness
\* of one from_documents call.
uuid(salt, n) == <<"uuid", salt, n>>

\* FAISS.from_documents(split_docs, encoder): one vector per document in document
\* order, a docstore keyed by fresh ids, and the map from positions to those ids.
from_documents(split_docs, salt) ==
    IF split_docs = <<>>
    THEN [err |-> EmptyEmbeddingsError, faiss_store |-> None]
    ELSE [err |-> NoError,
          faiss_store |->
              [tag |-> "FAISS",
               index |-> [ntotal |-> Len(split_docs),
                          vectors |-> [n \in DOMAIN split_docs |->
                                         Embed(split_docs[n].page_content)]],
               docstore |-> [id \in {uuid(salt, n) : n \in DOMAIN split_docs} |->
                                split_docs[id[3]]],
               index_to_docstore_id |-> [n \in DOMAIN split_docs |-> uuid(salt, n)]]]

\* FAISS.save_local(index_path): index.faiss holds the raw index, index.pkl the
\* pickled tuple (docstore, index_to_docstore_id).
save_local(faiss_store) ==
    [tag |-> "dir",
     faiss |-> faiss_store.index,
     pkl |-> [form |-> "tuple", docstore |-> faiss_store.docstore,
              index_to_docstore_id |-> faiss_store.index_to_docstore_id]]

\* FAISS.load_local(index_path, encoder): reads the two files save_local wrote.
load_local(dir) ==
    [tag |-> "FAISS", index |-> dir.faiss, docstore |-> dir.pkl.docstore,
     index_to_docstore_id |-> dir.pkl.index_to_docstore_id]

\* RagPipeline._build_faiss_index: fetch, filter, split, index, persist. dir is
\* the directory at index_path as the call leaves it; fetch is what
\* get_data_from_psql returned.
build_faiss_index(dir, db, db_url, unreadable, salt) ==
    LET fetch == get_data_from_psql(db, db_url, unreadable)
        filtered == get_filtered_data(fetch.value)
        split_docs == split_documents(filtered.docs)
        made == from_documents(split_docs, salt)
        failed(e) == [err |-> e, faiss_index |-> None, dir |-> dir, fetch |-> fetch,
                      built |-> TRUE]
    IN IF filtered.err # NoError THEN failed(filtered.err)
       ELSE IF made.err # NoError THEN failed(made.err)
       ELSE [err |-> NoError, faiss_index |-> made.faiss_store,
             dir |-> save_local(made.faiss_store), fetch |-> fetch, built |-> TRUE]

\* Variant that builds whether or not the directory exists.
initialize_faiss_index_rebuild(dir, db, db_url, unreadable, salt) ==
    build_faiss_index(dir, db, db_url, unreadable, salt)

\* RagPipeline._initialize_faiss_index of the build pipeline: the index is loaded
\* from index_path when that directory exists and built otherwise.
initialize_faiss_index(dir, db, db_url, unreadable, salt) ==
    IF dir.tag = "dir"
    THEN [err |-> NoError, faiss_index |-> load_local(dir), dir |-> dir,
          fetch |-> [raised |-> FALSE, value |-> None], built |-> FALSE]
    ELSE build_faiss_index(dir, db, db_url, unreadable, salt)

\* ------------------------------------------------------------ state machine
\* What the storage holds for a load of window w at the time of a call.
StorageCond(bucket, w, reachable) ==
    IF ~reachable THEN "unreachable"
    ELSE IF bucket[w].index = 0 /\ bucket[w].meta = 0 THEN "missing"
    ELSE "stored"

\* The record of a completed call.
\* who: the username of a /predict request; replaced: the window of the artifact
\* a successful initialize_faiss_index took the place of.
Outcome(op, err, status_code, response, searched, llm_called, docs, cond, who, replaced) ==
    [op |-> op, err |-> err, status_code |-> status_code, response |-> response,
     searched |-> searched, llm_called |-> llm_called, docs |-> docs, cond |-> cond,
     who |-> who, replaced |-> replaced]

\* The record of a completed construction of the build pipeline: the error it
\* raised, whether it built or loaded, whether a source read failed during it
\* and whether the data-fetch functions raised that failure.
Construction(op, err, did_build, read_failed, fetch_raised) ==
    [op |-> op, err |-> err, did_build |-> did_build, read_failed |-> read_failed,
     fetch_raised |-> fetch_raised]
NoConstruction == Construction("none", NoError, FALSE, FALSE, FALSE)

NoLocals == [object_key |-> "", raw_faiss_index |-> None]
NoUpload == [pc |-> "idle", win |-> "", build |-> 0]

\* The number the next rebuild gets.
NextBuild ==
    1 + (CHOOSE m \in 0..MaxBuilds :
            /\ \A w \in Windows : store[w].index <= m
            /\ \E w \in Windows : store[w].index = m \/ m = 0)

UserPrompts == [kind : {"dict", "str"}, prompt : Questions, system_prompt : {SystemPrompt}]
\* Request bodies of /predict: the daily job sends daily_report, the chat handler
\* leaves it at its default.
Bodies == [username : Usernames, prompt : {<<"q1">>}, daily_report : BOOLEAN]
\* What the outside world does during one /predict request: nothing goes wrong,
\* or one of the calls it serves fails.
AllGood == [reachable |-> TRUE, intact |-> TRUE, enc_ok |-> TRUE,
            llm |-> [ok |-> TRUE, text |-> <<"a1">>]]
Worlds ==
    {AllGood,
     [AllGood EXCEPT !.reachable = FALSE],
     [AllGood EXCEPT !.intact = FALSE],
     [AllGood EXCEPT !.enc_ok = FALSE],
     [AllGood EXCEPT !.llm = [ok |-> FALSE, text |-> <<>>]]}

Init ==
    /\ store = [w \in Windows |-> [index |-> 0, meta |-> 0]]
    /\ up = NoUpload
    /\ users = {UserRecord("alice", SystemPrompt, 0)}
    /\ messages = <<>>
    /\ faiss_index = None
    /\ pc = "idle"
    /\ raw = NoLocals
    /\ last = Outcome("none", NoError, 0, <<>>, FALSE, FALSE, <<>>, "", "", "")
    /\ tables = [t \in TableNames |-> <<>>]
    /\ index_path = None
    /\ build_index = None
    /\ built = NoConstruction
    /\ adding = {}
    /\ getting = ""
    /\ clock = 1
    /\ collection = "indexed"
    /\ reply = NoReply
    /\ job = NoJob
    /\ called = <<>>
    /\ sent = <<>>

\* A rebuild of window w starts: it overwrites the `{w}_index` object.
PutIndex(w) ==
    /\ up.pc = "idle"
    /\ NextBuild <= MaxBuilds
    /\ store' = [store EXCEPT ![w].index = NextBuild]
    /\ up' = [pc |-> "meta", win |-> w, build |-> NextBuild]
    /\ UNCHANGED <<users, messages, faiss_index, pc, raw, last>>
    /\ UNCHANGED building
    /\ UNCHANGED daily
    /\ UNCHANGED registry

\* The rebuild ends: it overwrites the `{w}_meta` object.
PutMeta ==
    /\ up.pc = "meta"
    /\ store' = [store EXCEPT ![up.win].meta = up.build]
    /\ up' = NoUpload
    /\ UNCHANGED <<users, messages, faiss_index, pc, raw, last>>
    /\ UNCHANGED building
    /\ UNCHANGED daily
    /\ UNCHANGED registry

\* initialize_faiss_index(s3_client, bucket_name, w) up to the raw index.
InitIndex(w, reachable, intact) ==
    /\ pc = "idle"
    /\ LET index == initialize_download_index(store, w, reachable, intact)
       IN IF index.err # NoError
          THEN /\ last' = Outcome("initialize", index.err, 0, <<>>, FALSE, FALSE, <<>>,
                                  StorageCond(store, w, reachable), "", "")
               /\ UNCHANGED <<pc, raw>>
          ELSE /\ pc' = "loading"
               /\ raw' = [object_key |-> w, raw_faiss_index |-> index.obj]
               /\ UNCHANGED last
    /\ UNCHANGED <<store, up, users, messages, faiss_index>>
    /\ UNCHANGED building
    /\ UNCHANGED daily
    /\ UNCHANGED registry

\* initialize_faiss_index from the metadata download to its end.
InitMeta(reachable, intact) ==
    /\ pc = "loading"
    /\ LET done == initialize_download_meta(store, faiss_index, raw, reachable, intact)
       IN /\ faiss_index' = done.faiss_index
          /\ last' = Outcome("initialize", done.err, 0, <<>>, FALSE, FALSE, <<>>,
                             StorageCond(store, raw.object_key, reachable), "",
                             IF done.err = NoError /\ faiss_index.tag = "FAISS"
                             THEN faiss_index.index.win ELSE "")
    /\ pc' = "idle"
    /\ raw' = NoLocals
    /\ UNCHANGED <<store, up, users, messages>>
    /\ UNCHANGED building
    /\ UNCHANGED daily
    /\ UNCHANGED registry

\* run(user_prompt) on the session pipeline.
Run(user_prompt, enc_ok, llm) ==
    /\ pc = "idle"
    /\ Len(messages) < 4 * MaxRuns
    /\ LET out == run(faiss_index, messages, default_nof_retrieved_docs,
                      nof_messages_to_store, user_prompt, enc_ok, llm)
       IN /\ messages' = out.messages
          /\ last' = Outcome("run", out.err, 0, out.response, out.searched,
                             out.llm_called, out.docs, "", "", "")
    /\ UNCHANGED <<store, up, users, faiss_index, pc, raw>>
    /\ UNCHANGED building
    /\ UNCHANGED daily
    /\ UNCHANGED registry

\* POST /predict
Predict(body, world) ==
    /\ LET trace == predict_trace(store, users, body, world.reachable, world.intact,
                                  world.enc_ok, world.llm)
           response == trace.response
       IN /\ users' = trace.coll
          /\ last' = Outcome("predict",
                             IF response.status_code = 200 THEN NoError
                             ELSE [type |-> "", msg |-> response.text],
                             response.status_code,
                             IF response.status_code = 200 THEN response.text ELSE <<>>,
                             FALSE, FALSE, <<>>,
                             StorageCond(store, IF body.daily_report THEN "day" ELSE "month",
                                         world.reachable),
                             body.username, "")
    /\ UNCHANGED <<store, up, messages, faiss_index, pc, raw>>
    /\ UNCHANGED building
    /\ UNCHANGED daily
    /\ UNCHANGED registry

Next ==
    \/ \E w \in Windows : PutIndex(w)
    \/ PutMeta
    \/ \E w \in Windows, reachable \in BOOLEAN, intact \in BOOLEAN :
          InitIndex(w, reachable, intact)
    \/ \E reachable \in BOOLEAN, intact \in BOOLEAN : InitMeta(reachable, intact)
    \/ \E user_prompt \in UserPrompts, enc_ok \in BOOLEAN, llm \in LlmOutcomes :
          Run(user_prompt, enc_ok, llm)
    \/ \E body \in Bodies, world \in Worlds : Predict(body, world)

Spec == Init /\ [][Next]_vars

\* ------------------------------------------------------------ the index build
\* The environment inserts a row into a source table.
InsertRow(table_name, text) ==
    /\ Len(tables[DATA_TABLES[1]]) + Len(tables[DATA_TABLES[2]]) < MaxRows
    /\ tables' = [tables EXCEPT ![table_name] =
                     Append(@, Row(table_name, Len(@) + 1, text))]
    /\ UNCHANGED <<index_path, build_index, built>>
    /\ UNCHANGED serving
    /\ UNCHANGED daily
    /\ UNCHANGED registry

\* RagPipeline(index_path) of the build pipeline: __init__ sets self.faiss_index
\* from _initialize_faiss_index; when that raises, no pipeline comes to exist.
Construct(db_url, unreadable, salt) ==
    /\ LET made == initialize_faiss_index(index_path, tables, db_url, unreadable, salt)
       IN /\ index_path' = made.dir
          /\ build_index' = made.faiss_index
          /\ built' = Construction("construct", made.err, made.built,
                                   made.built /\ (~db_url \/ unreadable # {}),
                                   made.fetch.raised)
    /\ UNCHANGED tables
    /\ UNCHANGED serving
    /\ UNCHANGED daily
    /\ UNCHANGED registry

BuildNext ==
    \/ \E table_name \in TableNames, text \in Texts : InsertRow(table_name, text)
    \/ \E db_url \in BOOLEAN, unreadable \in SUBSET TableNames, salt \in Salts :
          Construct(db_url, unreadable, salt)

BuildSpec == Init /\ [][BuildNext]_vars

\* ------------------------------------------------------------ user registry
\* The calls of the user endpoints and of AppDatabase's user methods, each a
\* process of its own against the one users collection. add_user and get_user
\* read the collection and then act on it in a second database call, so other
\* calls can come between the two.

\* pymongo's error when the database cannot be reached; has_user lets it through.
DatabaseDownError ==
    [type |-> "ServerSelectionTimeoutError", msg |-> "No servers found yet"]

\* The state a deployment starts in: no users collection yet, nobody registered.
UsersInit ==
    /\ store = [w \in Windows |-> [index |-> 0, meta |-> 0]]
    /\ up = NoUpload
    /\ users = {}
    /\ messages = <<>>
    /\ faiss_index = None
    /\ pc = "idle"
    /\ raw = NoLocals
    /\ last = Outcome("none", NoError, 0, <<>>, FALSE, FALSE, <<>>, "", "", "")
    /\ tables = [t \in TableNames |-> <<>>]
    /\ index_path = None
    /\ build_index = None
    /\ built = NoConstruction
    /\ adding = {}
    /\ getting = ""
    /\ clock = 1
    /\ collection = "missing"
    /\ reply = NoReply
    /\ job = NoJob
    /\ called = <<>>
    /\ sent = <<>>

\* AppDatabase.__init__ -> _create_collection_if_required, lines 109-111, in the
\* process that finds no users collection: create_collection. Every later
\* construction gets CollectionInvalid from it and returns at line 129 without
\* looking at the indexes; its database object then serves the calls below.
CreateCollection ==
    /\ collection = "missing"
    /\ collection' = "created"
    /\ UNCHANGED <<users, adding, getting, clock, reply>>
    /\ UNCHANGED <<store, up, messages, faiss_index, pc, raw, last>>
    /\ UNCHANGED building
    /\ UNCHANGED daily

\* _create_collection_if_required, lines 118-127, in the process that created the
\* collection: create_indexes, or the exception that ends the construction.
CreateIndexes(ok) ==
    /\ collection = "created"
    /\ collection' = IF create_indexes(users, ok) THEN "indexed" ELSE "unindexed"
    /\ UNCHANGED <<users, adding, getting, clock, reply>>
    /\ UNCHANGED <<store, up, messages, faiss_index, pc, raw, last>>
    /\ UNCHANGED building
    /\ UNCHANGED daily

\* create_user -> add_user, lines 88-93: the existence check.
AddUserCheck(username, system_prompt) ==
    LET e == add_user_check(users, username)
        call == [username |-> username, system_prompt |-> system_prompt]
    IN /\ collection # "missing"
       /\ Cardinality(adding) < MaxPending
       /\ call \notin adding
       /\ IF e.type # "none"
          THEN /\ reply' = Reply("create_user", username, e, caught(e), NoData)
               /\ UNCHANGED adding
          ELSE /\ adding' = adding \cup {call}
               /\ UNCHANGED reply
       /\ UNCHANGED <<users, getting, clock, collection>>
       /\ UNCHANGED <<store, up, messages, faiss_index, pc, raw, last>>
       /\ UNCHANGED building
       /\ UNCHANGED daily
    /\ UNCHANGED daily

\* create_user -> add_user, lines 95-105: the insert of a call that passed the check.
AddUserInsert(call) ==
    LET r == add_user_insert(users, call.username, call.system_prompt, clock,
                             collection = "indexed")
    IN /\ call \in adding
       /\ clock <= MaxInserts
       /\ adding' = adding \ {call}
       /\ users' = r.coll
       /\ clock' = clock + 1
       /\ reply' = Reply("create_user", call.username, r.err,
                         IF r.err.type # "none" THEN caught(r.err)
                         ELSE create_response(200, "message", "User created successfully."),
                         NoData)
       /\ UNCHANGED <<getting, collection>>
       /\ UNCHANGED <<store, up, messages, faiss_index, pc, raw, last>>
       /\ UNCHANGED building
       /\ UNCHANGED daily
    /\ UNCHANGED daily

\* set_prompt -> set_user_prompt
SetPrompt(username, new_prompt) ==
    /\ collection # "missing"
    /\ users' = update_one(users, username, new_prompt)
    /\ reply' = Reply("set_prompt", username, NoError,
                      create_response(200, "message", "Prompt updated successfully."),
                      NoData)
    /\ UNCHANGED <<adding, getting, clock, collection>>
    /\ UNCHANGED <<store, up, messages, faiss_index, pc, raw, last>>
    /\ UNCHANGED building
    /\ UNCHANGED daily

\* AppDatabase.remove_user; no endpoint reports it.
RemoveUser(username) ==
    /\ collection # "missing"
    /\ users' = delete_one(users, username)
    /\ reply' = [NoReply EXCEPT !.op = "remove_user", !.username = username]
    /\ UNCHANGED <<adding, getting, clock, collection>>
    /\ UNCHANGED <<store, up, messages, faiss_index, pc, raw, last>>
    /\ UNCHANGED building
    /\ UNCHANGED daily

\* get_user -> get_user_info, lines 128-130: has_user, and the raise when it is false.
GetUserCheck(username, db_up) ==
    /\ collection # "missing"
    /\ getting = ""
    /\ IF ~db_up
       THEN /\ reply' = Reply("get_user", username, DatabaseDownError,
                             caught(DatabaseDownError), NoData)
            /\ UNCHANGED getting
       ELSE IF ~has_user(users, username)
       THEN /\ reply' = Reply("get_user", username, UserNotFoundError(username),
                             caught(UserNotFoundError(username)), NoData)
            /\ UNCHANGED getting
       ELSE /\ getting' = username
            /\ UNCHANGED reply
    /\ UNCHANGED <<users, adding, clock, collection>>
    /\ UNCHANGED <<store, up, messages, faiss_index, pc, raw, last>>
    /\ UNCHANGED building
    /\ UNCHANGED daily

\* get_user -> get_user_info, lines 132-136: find_one, and the response to its result.
GetUserFind ==
    /\ getting # ""
    /\ reply' = Reply("get_user", getting, NoError,
                      get_user_response(find_one(users, getting)),
                      get_user_data(find_one(users, getting)))
    /\ getting' = ""
    /\ UNCHANGED <<users, adding, clock, collection>>
    /\ UNCHANGED <<store, up, messages, faiss_index, pc, raw, last>>
    /\ UNCHANGED building
    /\ UNCHANGED daily

UsersNext ==
    \/ CreateCollection
    \/ \E ok \in BOOLEAN : CreateIndexes(ok)
    \/ \E username \in Usernames, system_prompt \in SystemPrompts :
          AddUserCheck(username, system_prompt)
    \/ \E call \in adding : AddUserInsert(call)
    \/ \E username \in Usernames, new_prompt \in SystemPrompts :
          SetPrompt(username, new_prompt)
    \/ \E username \in Usernames : RemoveUser(username)
    \/ \E username \in Usernames, db_up \in BOOLEAN : GetUserCheck(username, db_up)
    \/ GetUserFind

UsersSpec == UsersInit /\ [][UsersNext]_vars

\* ------------------------------------------------------------ daily job runs
\* daily_predict_job, line 155: a run begins and lists the users. registered is
\* the users collection at that time.
JobList(listing) ==
    LET got == get_all_users(users, listing)
    IN /\ job.pc # "loop"
       /\ job' = [pc |-> IF got.err # NoError THEN "failed"
                         ELSE IF got.all_users = <<>> THEN "done" ELSE "loop",
                  registered |-> users, all_users |-> got.all_users, i |-> 1,
                  err |-> got.err]
       /\ called' = <<>>
       /\ sent' = <<>>
       /\ UNCHANGED serving
       /\ UNCHANGED building
       /\ UNCHANGED registry

\* daily_predict_job, lines 157-179: one pass of the loop, the /predict request
\* of the user with all the server does for it, and the message to the user's
\* chat. An exception of send_message leaves the loop and the job.
JobUser(answered, world, send_ok) ==
    LET user_info == job.all_users[job.i]
        body == payload(user_info)
        response == predict(store, users, body, world.reachable, world.intact,
                            world.enc_ok, world.llm)
        text == response_text(answered, response)
    IN /\ job.pc = "loop"
       /\ called' = Append(called, [username |-> body.username, text |-> text])
       /\ IF send_ok
          THEN /\ sent' = Append(sent, [chat_id |-> user_info["chat_id"], text |-> text])
               /\ job' = [job EXCEPT !.i = job.i + 1,
                                     !.pc = IF job.i = Len(job.all_users) THEN "done"
                                            ELSE "loop"]
          ELSE /\ UNCHANGED sent
               /\ job' = [job EXCEPT !.pc = "failed", !.err = SendError]
       /\ UNCHANGED serving
       /\ UNCHANGED building
       /\ UNCHANGED registry

JobNext ==
    \/ \E username \in Usernames, system_prompt \in SystemPrompts :
          AddUserCheck(username, system_prompt)
    \/ \E call \in adding : AddUserInsert(call)
    \/ \E username \in Usernames : RemoveUser(username)
    \/ \E listing \in Listings : JobList(listing)
    \/ \E answered \in BOOLEAN, world \in Worlds, send_ok \in BOOLEAN :
          JobUser(answered, world, send_ok)

JobSpec == Init /\ [][JobNext]_vars

\* ------------------------------------------------------------ properties
\* Steps of initialize_faiss_index (its first and its second part) are
\* InitIndexStep and InitMetaStep.
\* A step in which a run call returned: the bucket and the loader did not move.
RunReturned == last'.op = "run" /\ store' = store /\ raw' = raw
InitIndexStep == \E w \in Windows, reachable \in BOOLEAN, intact \in BOOLEAN :
                    InitIndex(w, reachable, intact)
InitMetaStep == \E reachable \in BOOLEAN, intact \in BOOLEAN : InitMeta(reachable, intact)

\* The transcript read from the session pipeline's memory.
transcript == load_memory_variables(messages, nof_messages_to_store)

\* The window a document id belongs to.
WindowOf(doc) == doc[1]

\* C1: on a pipeline that holds no index (no initialize_faiss_index call has
\* succeeded), every run fails with the not-initialized error, makes neither a
\* retrieval nor a language-model call, and leaves the memory and the absent
\* index as they were.
C1_RunBeforeInitialize ==
    [][RunReturned =>
       \A user_prompt \in UserPrompts, enc_ok \in BOOLEAN, llm \in LlmOutcomes :
          (faiss_index.tag = "None" /\ Run(user_prompt, enc_ok, llm)) =>
             /\ last'.err = NotInitializedError
             /\ ~last'.searched
             /\ ~last'.llm_called
             /\ messages' = messages
             /\ faiss_index' = None]_vars

C1_Witness ==
    /\ last.op = "run"
    /\ last.err = NotInitializedError
    /\ faiss_index.tag = "None"

\* C2: a run whose retrieval returns zero documents fails with the
\* no-matching-context error, does not call the chain, and leaves the memory as
\* it was.
C2_EmptyRetrieval ==
    [][RunReturned =>
       \A user_prompt \in UserPrompts, enc_ok \in BOOLEAN, llm \in LlmOutcomes :
          (/\ faiss_index.tag = "FAISS"
           /\ LET results == similarity_search_with_score(
                                 faiss_index, user_prompt.prompt,
                                 default_nof_retrieved_docs, enc_ok)
              IN results.err = NoError /\ results.docs = <<>>
           /\ Run(user_prompt, enc_ok, llm)) =>
             /\ last'.err = NoMatchingError
             /\ last'.searched
             /\ ~last'.llm_called
             /\ messages' = messages]_vars

C2_Witness ==
    /\ last.op = "run"
    /\ last.err = NoMatchingError
    /\ faiss_index.tag = "FAISS"
    /\ faiss_index.index.ntotal = 0

\* C3 (as claimed): a successful run appends exactly two turns, the question
\* then the answer, and a run that fails appends none.
C3_TwoTurnsPerRun ==
    [][RunReturned =>
       \A user_prompt \in UserPrompts, enc_ok \in BOOLEAN, llm \in LlmOutcomes :
          Run(user_prompt, enc_ok, llm) =>
             IF last'.err = NoError
             THEN messages' = messages \o <<Turn("user", user_prompt.prompt),
                                            Turn("assistant", last'.response)>>
             ELSE messages' = messages]_vars

\* C4: a run that fails, whatever the failure, leaves the memory and the held
\* index as they were and the pipeline ready for the next call.
C4_FailedRunChangesNothing ==
    [][RunReturned =>
       \A user_prompt \in UserPrompts, enc_ok \in BOOLEAN, llm \in LlmOutcomes :
          (Run(user_prompt, enc_ok, llm) /\ last'.err # NoError) =>
             /\ messages' = messages
             /\ faiss_index' = faiss_index
             /\ pc' = "idle"]_vars

C4_Witness ==
    /\ last.op = "run"
    /\ last.err = SynthesisError
    /\ last.llm_called
    /\ messages # <<>>
    /\ faiss_index.tag = "FAISS"

\* C5 (as claimed): the transcript never holds more than nof_messages_to_store
\* turns.
C5_TranscriptWithinCapacity == Len(transcript) <= nof_messages_to_store

\* C6 (as claimed): once more than nof_messages_to_store turns were appended,
\* the transcript is exactly the newest nof_messages_to_store of them, in
\* append order.
C6_OldestEvictedFirst ==
    Len(messages) > nof_messages_to_store =>
        transcript = SubSeq(messages, Len(messages) - nof_messages_to_store + 1,
                            Len(messages))

\* C7: an initialize_faiss_index call that fails, at the index download or at
\* the metadata download, leaves the index held before the call in place, and
\* every search gets the answer it got before.
C7_FailedLoadKeepsIndex ==
    [][((last'.status_code = 0 /\ pc' = "idle" /\ InitIndexStep)
        \/ (last'.err # NoError /\ InitMetaStep)) =>
          /\ last'.op = "initialize"
          /\ last'.err # NoError
          /\ faiss_index' = faiss_index
          /\ faiss_index.tag = "FAISS" =>
                \A q \in Questions :
                    similarity_search_with_score(faiss_index', q,
                                                 default_nof_retrieved_docs, TRUE)
                    = similarity_search_with_score(faiss_index, q,
                                                   default_nof_retrieved_docs, TRUE)]_vars

C7_Witness ==
    /\ last.op = "initialize"
    /\ last.err \in {NotFoundError, TransientError, DeserializeError}
    /\ faiss_index.tag = "FAISS"
    /\ faiss_index.index.ntotal > 0

\* C8 (as claimed): a held artifact has as many vectors as id-map entries, every
\* id-map value is a key of the document map, and its vectors and metadata come
\* from the same build.
C8_ArtifactConsistent ==
    faiss_index.tag = "FAISS" =>
        /\ faiss_index.index.ntotal = Len(faiss_index.index_to_docstore_id)
        /\ \A i \in DOMAIN faiss_index.index_to_docstore_id :
              faiss_index.index_to_docstore_id[i] \in faiss_index.docstore
        /\ faiss_index.index.build = faiss_index.meta_of.build

\* C9: a successful initialize_faiss_index for window w leaves an index whose
\* vectors, id map and document map are all those of w, whatever was held
\* before, and every search on it returns documents of w only.
C9_LoadReplacesWholesale ==
    [][(InitMetaStep /\ last'.err = NoError) =>
          /\ faiss_index'.tag = "FAISS"
          /\ faiss_index'.index.win = raw.object_key
          /\ faiss_index'.meta_of.win = raw.object_key
          /\ \A d \in faiss_index'.docstore : WindowOf(d) = raw.object_key
          /\ \A i \in DOMAIN faiss_index'.index_to_docstore_id :
                WindowOf(faiss_index'.index_to_docstore_id[i]) = raw.object_key
          /\ \A q \in Questions :
                LET results == similarity_search_with_score(
                                   faiss_index', q, default_nof_retrieved_docs, TRUE)
                IN \A n \in 1..Len(results.docs) :
                      WindowOf(results.docs[n].doc) = raw.object_key]_vars

C9_Witness ==
    /\ last.op = "initialize"
    /\ last.err = NoError
    /\ last.replaced # ""
    /\ last.replaced # faiss_index.index.win
    /\ faiss_index.docstore # {}

\* C10 (as claimed): the caller of the load, and the caller of /predict for a
\* registered user, is told not-found when nothing was ever stored for the
\* window and transient when the storage cannot be reached.
C10_LoadErrorsDistinguished ==
    /\ (last.op = "initialize" /\ last.cond = "missing") => last.err = NotFoundError
    /\ (last.op = "initialize" /\ last.cond = "unreachable") => last.err = TransientError
    /\ (last.op = "predict" /\ (\E r \in users : r.username = last.who) /\ last.cond = "missing") =>
          last.err.msg = NotFoundError.msg
    /\ (last.op = "predict" /\ (\E r \in users : r.username = last.who) /\ last.cond = "unreachable") =>
          last.err.msg = TransientError.msg


\* ------------------------------------------------------------ properties of the index build
\* A step in which a construction of the build pipeline completed.
Constructed == built'.op = "construct" /\ tables' = tables

\* C11 (as claimed): the artifact the index build persisted is loaded back by both
\* load paths with the vectors, the documents and the id map that were built:
\* by load_local of the build pipeline, and by the serving pipeline's
\* initialize_faiss_index reading the two persisted files as the objects
\* `{window_id}_index` and `{window_id}_meta`, the latter by its keys "docstore"
\* and "index_to_docstore_id".
C11_PersistedFormIsLoadedForm ==
    index_path.tag = "dir" =>
        LET served == assemble(None, index_path.faiss, index_path.pkl)
        IN /\ load_local(index_path) = build_index
           /\ served.err = NoError
           /\ served.faiss_index.index = build_index.index
           /\ served.faiss_index.docstore = build_index.docstore
           /\ served.faiss_index.index_to_docstore_id = build_index.index_to_docstore_id

\* The chunks an artifact holds, in position order.
StoredChunks(faiss_store) ==
    [n \in DOMAIN faiss_store.index_to_docstore_id |->
        faiss_store.docstore[faiss_store.index_to_docstore_id[n]].page_content]
\* The chunks of the rows the source tables hold now.
CurrentChunks ==
    LET documents == split_documents(
                         get_filtered_data(get_data_from_psql(tables, TRUE, {}).value).docs)
    IN [n \in DOMAIN documents |-> documents[n].page_content]

\* C12 (as claimed): constructing the build pipeline for an index path that already
\* holds a persisted artifact replaces that artifact with one built from the
\* current source rows: afterwards the persisted and the held artifact hold
\* exactly the chunks of the current source data.
C12_RebuildReplaces ==
    [][(Constructed /\ index_path.tag = "dir" /\ built'.err = NoError) =>
          /\ StoredChunks(load_local(index_path')) = CurrentChunks
          /\ StoredChunks(build_index') = CurrentChunks]_vars

\* C12 (amended): constructing the build pipeline for an index path that already
\* holds a persisted artifact does not rebuild: it succeeds without reading the
\* source, leaves the persisted artifact as it is and holds what load_local
\* reads from it, so vector count and documents are those of before. Only when
\* no artifact is persisted does a successful construction persist and hold
\* exactly the chunks of the current source rows.
C12_ExistingArtifactIsLoaded ==
    [][Constructed =>
          /\ index_path.tag = "dir" =>
                /\ built'.err = NoError /\ ~built'.did_build
                /\ index_path' = index_path
                /\ build_index' = load_local(index_path)
          /\ (index_path.tag = "None" /\ built'.err = NoError) =>
                /\ built'.did_build
                /\ StoredChunks(load_local(index_path')) = CurrentChunks
                /\ build_index' = load_local(index_path')]_vars

\* A construction loaded a persisted artifact that no longer matches the source.
C12_Witness ==
    /\ built.op = "construct" /\ built.err = NoError /\ ~built.did_build
    /\ StoredChunks(build_index) # CurrentChunks

\* C13 (as claimed): when a configured source table cannot be read, or the
\* database connection cannot be created, the build fails with an error raised
\* to the caller, no artifact is persisted or held, and the data-fetch functions
\* raise the read failure instead of returning normally.
C13_ReadFailureFailsBuild ==
    [][(Constructed /\ built'.read_failed) =>
          /\ built'.err # NoError
          /\ index_path' = index_path
          /\ build_index'.tag = "None"
          /\ built'.fetch_raised]_vars

\* ------------------------------------------------------------ properties of the serving side, continued
\* C14 (as claimed): on the artifact the pipeline holds, the search for any query
\* and any k up to the configured one raises no error and returns its results in
\* non-decreasing distance order: exactly k of them when the artifact holds at
\* least k vectors, all n of them when it holds n < k, none when it holds none.
C14_SearchRanksAndTruncates ==
    faiss_index.tag = "FAISS" =>
        \A query \in Questions, k \in 1..default_nof_retrieved_docs :
            LET results == similarity_search_with_score(faiss_index, query, k, TRUE)
                n == faiss_index.index.ntotal
            IN /\ results.err = NoError
               /\ Len(results.docs) = IF n < k THEN n ELSE k
               /\ \A i \in 1..Len(results.docs), j \in 1..Len(results.docs) :
                     i < j => results.docs[i].score <= results.docs[j].score

\* A step in which a /predict request completed.
PredictReturned ==
    last'.op = "predict" /\ UNCHANGED <<store, up, messages, faiss_index, pc, raw>>
\* The turns of a transcript.
Turns(msgs) == {msgs[i] : i \in DOMAIN msgs}

\* C15: in every reachable state, whatever calls and requests came before, the
\* chat history that the pipeline of any /predict request supplies to the chain,
\* and the memory that pipeline begins with, hold no turn of another
\* conversation: none of the turns the session pipeline holds for its own.
C15_NoForeignTurns ==
    \A body \in Bodies, world \in Worlds :
        LET trace == predict_trace(store, users, body, world.reachable,
                                   world.intact, world.enc_ok, world.llm)
        IN /\ Turns(trace.chat_history) \cap Turns(messages) = {}
           /\ Turns(get_rag_pipeline.messages) \cap Turns(messages) = {}

\* A /predict request of a registered user completed while another conversation
\* had turns in its pipeline's memory.
C15_Witness ==
    /\ last.op = "predict"
    /\ \E r \in users : r.username = last.who
    /\ messages # <<>>

\* The window a /predict request selects.
WindowFor(body) == IF body.daily_report THEN "day" ELSE "month"
\* What a /predict request needs in order to be answered: a registered user and,
\* for the selected window, a stored artifact of one build with at least one chunk.
Servable(bucket, coll, body) ==
    /\ \E r \in coll : r.username = body.username
    /\ bucket[WindowFor(body)].index = bucket[WindowFor(body)].meta
    /\ Size(bucket[WindowFor(body)].index) >= 1
\* The trace of a /predict request during which nothing outside fails.
GoodTrace(bucket, coll, body) ==
    predict_trace(bucket, coll, body, AllGood.reachable, AllGood.intact,
                  AllGood.enc_ok, AllGood.llm)

UsesLoaded(trace, body) ==
    /\ trace.rag.faiss_index.tag = "FAISS"
    /\ trace.rag.faiss_index.index.win = WindowFor(body)

C18_PredictKeepsUsers ==
    [][PredictReturned => users' = users]_vars

\* A /predict request for a username without a record completed.
C18_Witness ==
    /\ last.op = "predict"
    /\ ~ \E r \in users : r.username = last.who
    /\ users = {UserRecord("alice", SystemPrompt, 0)}

\* C19 (as claimed): a /predict request for a registered user whose selected
\* window (the 1-day one for a daily report, else the 30-day one) has a stored
\* artifact with at least one chunk, and during which no call fails, is
\* answered with status 200 and the generated answer, not with an error.
C19_ServableIsAnswered ==
    \A body \in Bodies :
        Servable(store, users, body) =>
            LET response == GoodTrace(store, users, body).response
            IN /\ response.status_code = 200
               /\ response.key = "response"
               /\ response.text = AllGood.llm.text

\* ------------------------------------------------------------ properties of the index build, continued
\* The chunks of the source rows with the id of the row each is cut from: table
\* by table in configuration order, row by row, rows of empty text left out.
SourcePairs(db) ==
    LET of_row(row) ==
            IF row.text = <<>> THEN <<>>
            ELSE LET chunks == split_text(row.text)
                 IN [c \in DOMAIN chunks |-> [id |-> row.id, chunk |-> chunks[c]]]
        of_table(rows) == Concat([n \in DOMAIN rows |-> of_row(rows[n])])
    IN Concat([i \in DOMAIN DATA_TABLES |-> of_table(db[DATA_TABLES[i]])])

\* C20 (as claimed): a build stores the chunks of the source rows in table-then-row
\* order and every stored chunk is associated with the id of the row it was cut
\* from, also when rows of empty text are skipped.
C20_ChunksKeepRowIds ==
    [][(Constructed /\ built'.did_build /\ built'.err = NoError) =>
          LET pairs == SourcePairs(tables)
              document(n) ==
                  build_index'.docstore[build_index'.index_to_docstore_id[n]]
          IN /\ DOMAIN build_index'.index_to_docstore_id = DOMAIN pairs
             /\ \A n \in DOMAIN pairs : document(n).page_content = pairs[n].chunk
             /\ \A n \in DOMAIN pairs : <<"id", pairs[n].id>> \in document(n).metadata]_vars


\* ------------------------------------------------------------ properties of the user registry
\* A step with which a get_user call returns its response.
GetUserReturned ==
    /\ \/ \E username \in Usernames, db_up \in BOOLEAN : GetUserCheck(username, db_up)
       \/ GetUserFind
    /\ getting' = ""

\* C21: a get_user call for a username that has no user record when the call
\* returns is answered with status 404 and the message "User not found."; a
\* get_user call answered with status 400 met an unexpected failure, here the
\* database being out of reach.
C21_UnknownUserIs404 ==
    [][GetUserReturned =>
          /\ ~has_user(users', reply'.username) =>
                \/ /\ reply'.status_code = 404
                   /\ reply'.text = "User not found."
                \/ /\ reply'.status_code = 400
                   /\ reply'.text = DatabaseDownError.msg
          /\ reply'.status_code = 400 => reply'.text = DatabaseDownError.msg]_vars


\* A step of an add_user call for the username: its existence check or its insert.
AddUserStep(username) ==
    \/ \E system_prompt \in SystemPrompts : AddUserCheck(username, system_prompt)
    \/ \E call \in adding : call.username = username /\ AddUserInsert(call)

\* C22: whatever way add_user, set_user_prompt and remove_user calls interleave,
\* two add_user calls for one username that both passed the existence check
\* included, the users collection holds at most one record per username; and an
\* add_user for a username that has a record fails with
\* ApplicationDatabaseException and leaves that record, its system_prompt,
\* chat_id and creation_date, as it was.
C22_OneRecordPerUsername ==
    /\ [](\A r1, r2 \in users : r1.username = r2.username => r1 = r2)
    /\ [][\A username \in Usernames :
              AddUserStep(username) /\ has_user(users, username) =>
                  /\ reply'.op = "create_user"
                  /\ reply'.err.type = "ApplicationDatabaseException"
                  /\ \A r \in users : r.username = username => r \in users']_vars


\* ------------------------------------------------------------ properties of the daily job
\* A run of the daily job is over: its loop ended or an exception left it.
JobEnded == job.pc \in {"done", "failed"}

\* C23: when a run of the daily job is over, it has called /predict once for
\* every user registered when the run listed the users and has sent exactly one
\* message to the chat of every such user, whatever became of the /predict
\* calls of the other users, and that message carries the text made from the
\* user's own /predict call, not from the call of another user.
C23_EveryUserGetsOwnResult ==
    JobEnded =>
        \A r \in job.registered :
            LET calls == {k \in DOMAIN called : called[k].username = r.username}
                msgs == {m \in DOMAIN sent : sent[m].chat_id = r.chat_id}
            IN /\ Cardinality(calls) = 1
               /\ Cardinality(msgs) = 1
               /\ \A k \in calls, m \in msgs : sent[m].text = called[k].text

====
